---- MODULE Spec2Model ----
(***************************************************************************)
(* Serial_Motor: the serial sender (GUI-Serial.py, GUI-Serial-v2.py,       *)
(* send.py), its validation helpers and its log manager, as a state        *)
(* machine.  Texts typed by the operator and commands written to the wire  *)
(* are sequences of one-character strings; log messages are strings.       *)
(***************************************************************************)
EXTENDS Integers, Sequences, FiniteSets, TLC

\* ------------------------------------------------------------ Constants
PWM_MIN_VALUE == -25000
PWM_MAX_VALUE == 25000
ROBOMAS_MIN_VALUE == -10000
ROBOMAS_MAX_VALUE == 10000
CAN_ID_MIN == 1
CAN_ID_MAX == 4
PWM_COUNT == 4
ROBOMAS_COUNT == 8
ROBOMAS_COUNT_MIN == 1
ROBOMAS_COUNT_MAX == 8

\* ------------------------------------------------------------ Bounds
\* successful opens of the serial port in one behaviour
MaxOpens == 2
\* records emitted to the stream sink after start-up in one behaviour of Spec
\* and of SpecSerialManager
MaxStream == 2
\* records emitted to the stream sink after start-up in one behaviour of SpecLog
MaxRecords == 3
\* successful writes in one behaviour of SpecSerialManager
MaxWrites == 2

\* ------------------------------------------------------------ Text
DigitChars == <<"0", "1", "2", "3", "4", "5", "6", "7", "8", "9">>

IsDigit(c) == \E i \in 1..Len(DigitChars) : DigitChars[i] = c

DigitVal(c) == (CHOOSE i \in 1..Len(DigitChars) : DigitChars[i] = c) - 1

IsSpace(c) == c \in {" ", "\t", "\n", "\r"}

\* str.strip(): leading and trailing whitespace removed
RECURSIVE LStrip(_)
LStrip(s) == IF s # <<>> /\ IsSpace(Head(s)) THEN LStrip(Tail(s)) ELSE s

RECURSIVE RStrip(_)
RStrip(s) ==
    IF s # <<>> /\ IsSpace(s[Len(s)]) THEN RStrip(SubSeq(s, 1, Len(s) - 1)) ELSE s

Strip(s) == RStrip(LStrip(s))

\* the digits of an int() literal: digits, single underscores between them
DigitsOk(s) ==
    /\ s # <<>>
    /\ \A i \in 1..Len(s) : IsDigit(s[i]) \/ s[i] = "_"
    /\ s[1] # "_" /\ s[Len(s)] # "_"
    /\ \A i \in 1..(Len(s) - 1) : ~(s[i] = "_" /\ s[i + 1] = "_")

RECURSIVE DigitsValue(_, _)
DigitsValue(s, acc) ==
    IF s = <<>> THEN acc
    ELSE IF Head(s) = "_" THEN DigitsValue(Tail(s), acc)
    ELSE DigitsValue(Tail(s), 10 * acc + DigitVal(Head(s)))

\* int(text): ok is FALSE where Python raises ValueError
PyInt(text) ==
    LET s == Strip(text)
        signed == s # <<>> /\ Head(s) \in {"+", "-"}
        body == IF signed THEN Tail(s) ELSE s
        mag == IF DigitsOk(body) THEN DigitsValue(body, 0) ELSE 0
    IN  [ok |-> DigitsOk(body),
         v |-> IF signed /\ Head(s) = "-" THEN 0 - mag ELSE mag]

RECURSIVE NatChars(_)
NatChars(n) ==
    IF n < 10 THEN <<DigitChars[n + 1]>>
    ELSE NatChars(n \div 10) \o <<DigitChars[(n % 10) + 1]>>

\* f"{v}" of an integer: decimal, a minus sign for negatives, no padding
PyStr(v) == IF v < 0 THEN <<"-">> \o NatChars(0 - v) ELSE NatChars(v)

\* ------------------------------------------------------------ ValidationHelper
\* (is_valid, value, error_msg); value is <<>> for None, <<v>> for an integer
validate_can_id(can_id) ==
    LET r == PyInt(Strip(can_id))
    IN  IF ~r.ok
        THEN [is_valid |-> FALSE, value |-> <<>>,
              error_msg |-> "Invalid CAN ID (must be integer)"]
        ELSE IF CAN_ID_MIN <= r.v /\ r.v <= CAN_ID_MAX
        THEN [is_valid |-> TRUE, value |-> <<r.v>>, error_msg |-> ""]
        ELSE [is_valid |-> FALSE, value |-> <<>>,
              error_msg |-> "CAN ID out of range (" \o ToString(CAN_ID_MIN)
                            \o "-" \o ToString(CAN_ID_MAX) \o ")"]

\* validate_pwm_value without its range check
validate_pwm_value_unchecked(value) ==
    LET r == PyInt(Strip(value))
    IN  IF ~r.ok
        THEN [is_valid |-> FALSE, value |-> <<>>,
              error_msg |-> "Invalid value (must be integer)"]
        ELSE [is_valid |-> TRUE, value |-> <<r.v>>, error_msg |-> ""]

\* validate_pwm_value that leaves the two limits out of the range
validate_pwm_value_open_range(value) ==
    LET r == PyInt(Strip(value))
    IN  IF ~r.ok
        THEN [is_valid |-> FALSE, value |-> <<>>,
              error_msg |-> "Invalid value (must be integer)"]
        ELSE IF PWM_MIN_VALUE < r.v /\ r.v < PWM_MAX_VALUE
        THEN [is_valid |-> TRUE, value |-> <<r.v>>, error_msg |-> ""]
        ELSE [is_valid |-> FALSE, value |-> <<>>,
              error_msg |-> "Value out of range (" \o ToString(PWM_MIN_VALUE)
                            \o "~" \o ToString(PWM_MAX_VALUE) \o ")"]

validate_pwm_value(value) ==
    LET r == PyInt(Strip(value))
    IN  IF ~r.ok
        THEN [is_valid |-> FALSE, value |-> <<>>,
              error_msg |-> "Invalid value (must be integer)"]
        ELSE IF PWM_MIN_VALUE <= r.v /\ r.v <= PWM_MAX_VALUE
        THEN [is_valid |-> TRUE, value |-> <<r.v>>, error_msg |-> ""]
        ELSE [is_valid |-> FALSE, value |-> <<>>,
              error_msg |-> "Value out of range (" \o ToString(PWM_MIN_VALUE)
                            \o "~" \o ToString(PWM_MAX_VALUE) \o ")"]

validate_robomas_value(value) ==
    LET r == PyInt(Strip(value))
    IN  IF ~r.ok
        THEN [is_valid |-> FALSE, value |-> <<>>,
              error_msg |-> "Invalid value (must be integer)"]
        ELSE IF ROBOMAS_MIN_VALUE <= r.v /\ r.v <= ROBOMAS_MAX_VALUE
        THEN [is_valid |-> TRUE, value |-> <<r.v>>, error_msg |-> ""]
        ELSE [is_valid |-> FALSE, value |-> <<>>,
              error_msg |-> "Value out of range (" \o ToString(ROBOMAS_MIN_VALUE)
                            \o "~" \o ToString(ROBOMAS_MAX_VALUE) \o ")"]

\* the loop of validate_pwm_values that validates every element and reports
\* the last failure
RECURSIVE pwm_values_loop_to_the_end(_, _, _, _)
pwm_values_loop_to_the_end(values, i, pwm_values, error) ==
    IF i >= Len(values)
    THEN IF error = ""
         THEN [is_valid |-> TRUE, value |-> pwm_values, error_msg |-> ""]
         ELSE [is_valid |-> FALSE, value |-> <<>>, error_msg |-> error]
    ELSE LET r == validate_pwm_value(values[i + 1])
         IN  IF ~r.is_valid
             THEN pwm_values_loop_to_the_end(
                      values, i + 1, pwm_values,
                      "PWM[" \o ToString(i) \o "]: " \o r.error_msg)
             ELSE pwm_values_loop_to_the_end(values, i + 1, pwm_values \o r.value,
                                             error)

validate_pwm_values_to_the_end(values) == pwm_values_loop_to_the_end(values, 0, <<>>, "")

\* the loop of validate_pwm_values from index i (0-based) with the values so far
RECURSIVE pwm_values_loop(_, _, _)
pwm_values_loop(values, i, pwm_values) ==
    IF i >= Len(values)
    THEN [is_valid |-> TRUE, value |-> pwm_values, error_msg |-> ""]
    ELSE LET r == validate_pwm_value(values[i + 1])
         IN  IF ~r.is_valid
             THEN [is_valid |-> FALSE, value |-> <<>>,
                   error_msg |-> "PWM[" \o ToString(i) \o "]: " \o r.error_msg]
             ELSE pwm_values_loop(values, i + 1, pwm_values \o r.value)

validate_pwm_values(values) == pwm_values_loop(values, 0, <<>>)

\* the loop of validate_robomas_values that skips an empty element instead of
\* taking it as 0
RECURSIVE robomas_values_loop_skipping(_, _, _)
robomas_values_loop_skipping(values, i, robomas_values) ==
    IF i >= Len(values)
    THEN [is_valid |-> TRUE, value |-> robomas_values, error_msg |-> ""]
    ELSE IF Strip(values[i + 1]) = <<>>
    THEN robomas_values_loop_skipping(values, i + 1, robomas_values)
    ELSE LET r == validate_robomas_value(values[i + 1])
         IN  IF ~r.is_valid
             THEN [is_valid |-> FALSE, value |-> <<>>,
                   error_msg |-> "Robomas[" \o ToString(i) \o "]: " \o r.error_msg]
             ELSE robomas_values_loop_skipping(values, i + 1,
                                               robomas_values \o r.value)

validate_robomas_values_skipping(values) == robomas_values_loop_skipping(values, 0, <<>>)

RECURSIVE robomas_values_loop(_, _, _)
robomas_values_loop(values, i, robomas_values) ==
    IF i >= Len(values)
    THEN [is_valid |-> TRUE, value |-> robomas_values, error_msg |-> ""]
    ELSE IF Strip(values[i + 1]) = <<>>
    THEN robomas_values_loop(values, i + 1, robomas_values \o <<0>>)
    ELSE LET r == validate_robomas_value(values[i + 1])
         IN  IF ~r.is_valid
             THEN [is_valid |-> FALSE, value |-> <<>>,
                   error_msg |-> "Robomas[" \o ToString(i) \o "]: " \o r.error_msg]
             ELSE robomas_values_loop(values, i + 1, robomas_values \o r.value)

validate_robomas_values(values) == robomas_values_loop(values, 0, <<>>)

\* ------------------------------------------------------------ State
VARIABLES
    program,            \* which of the three programs runs
    port,               \* port_combo.get(): the selected port text, "" for none
    current_tab,        \* SerialSenderGUI.current_tab (GUI-Serial-v2.py)
    status_var,         \* SerialSenderGUI.status_var
    serial_connection,  \* SerialManager.serial_connection: "None", "open", "closed"
    ser,                \* send.py's ser: "None" (unbound), "open", "closed"
    handles,            \* serial ports this process holds open
    opens,              \* successful serial.Serial(...) constructions so far
    closes,             \* close() calls on an open port so far
    writes,             \* successful write() calls so far
    lastWrite,          \* the bytes of the latest successful write()
    log_enabled,        \* LogManager.log_enabled
    file_handler,       \* LogManager.file_handler: "None" or a handler
    rootHandlers,       \* handlers attached to the root logger
    openStreams,        \* file handlers whose stream is open on the log file
    orphanStreams,      \* file handlers whose stream is open on a removed file
    fileExists,         \* os.path.exists(log_file_path)
    fileContent,        \* the lines of the log file
    extLock,            \* what the OS denies on the log file
    removedBy,          \* who removed the log file the last time it was removed
    stderr,             \* the records the stream sink has written
    stdout,             \* the latest line printed
    last                \* the latest operation: its name, inputs, result and what
                        \* it did to the log file and its handlers, in order

vars == <<program, port, current_tab, status_var, serial_connection, ser, handles,
          opens, closes, writes, lastWrite, log_enabled, file_handler, rootHandlers,
          openStreams, orphanStreams, fileExists, fileContent, extLock, removedBy,
          stderr, stdout, last>>

\* the state as one value, for the operations to pass along
World ==
    [program |-> program, port |-> port, current_tab |-> current_tab,
     status_var |-> status_var, serial_connection |-> serial_connection,
     ser |-> ser, handles |-> handles, opens |-> opens, closes |-> closes,
     writes |-> writes, lastWrite |-> lastWrite, log_enabled |-> log_enabled,
     file_handler |-> file_handler, rootHandlers |-> rootHandlers,
     openStreams |-> openStreams, orphanStreams |-> orphanStreams,
     fileExists |-> fileExists, fileContent |-> fileContent, extLock |-> extLock,
     removedBy |-> removedBy, stderr |-> stderr, stdout |-> stdout, ret |-> "None",
     steps |-> <<>>]

\* the state after an operation op(args) that ended in w
Commit(w, op, args) ==
    /\ program' = w.program
    /\ port' = w.port
    /\ current_tab' = w.current_tab
    /\ status_var' = w.status_var
    /\ serial_connection' = w.serial_connection
    /\ ser' = w.ser
    /\ handles' = w.handles
    /\ opens' = w.opens
    /\ closes' = w.closes
    /\ writes' = w.writes
    /\ lastWrite' = w.lastWrite
    /\ log_enabled' = w.log_enabled
    /\ file_handler' = w.file_handler
    /\ rootHandlers' = w.rootHandlers
    /\ openStreams' = w.openStreams
    /\ orphanStreams' = w.orphanStreams
    /\ fileExists' = w.fileExists
    /\ fileContent' = w.fileContent
    /\ extLock' = w.extLock
    /\ removedBy' = w.removedBy
    /\ stderr' = w.stderr
    /\ stdout' = w.stdout
    /\ last' = [op |-> op, args |-> args, ret |-> w.ret, steps |-> w.steps]

Return(w, value) == [w EXCEPT !.ret = value]

\* what the operation under way did to the log file and its handlers, in order
Step(w, name) == [w EXCEPT !.steps = Append(@, name)]

Programs == {"GUI-Serial.py", "GUI-Serial-v2.py", "send.py"}
GuiPrograms == {"GUI-Serial.py", "GUI-Serial-v2.py"}

\* ------------------------------------------------------------ The log file and the OS
\* What the OS denies on the log file's path.  "none": nothing; "shared":
\* another process holds the file open, so removing it is denied; "exclusive":
\* every open (also one that would create the file) and the removal are denied,
\* as when another process holds the file exclusively or the permission is
\* missing; "unreadable": opening it for reading is denied; "appendonly": the
\* file may be read and appended to, but truncating or removing it is denied
\* (an append-only file, or on Windows a hidden one opened with mode 'w').
LockModes == {"none", "shared", "exclusive", "unreadable", "appendonly"}

CanRead(w) == w.extLock \notin {"exclusive", "unreadable"}
CanWrite(w) == w.extLock # "exclusive"
CanRemove(w) == w.extLock \notin {"exclusive", "shared", "appendonly"}
\* open(path, 'w'): creating a missing file, or truncating an existing one
CanTruncate(w) == w.extLock \notin {"exclusive", "appendonly"}

\* ------------------------------------------------------------ logging
StreamHandler == "stream"
FileHandlers == {"h1", "h2", "h3"}

Record(level, msg) == [level |-> level, msg |-> msg]

\* copies of one line, one per file handler that writes it
RECURSIVE Copies(_, _)
Copies(line, n) == IF n = 0 THEN <<>> ELSE <<line>> \o Copies(line, n - 1)

\* logging.info / logging.error: the root logger hands the record to every
\* attached handler.  A file handler whose stream was closed opens the file again
\* (mode 'a') to write; a stream on a removed file writes where nobody reads.
Log(w, level, msg) ==
    LET attached == w.rootHandlers \cap FileHandlers
        reopened == IF CanWrite(w)
                    THEN attached \ (w.openStreams \cup w.orphanStreams)
                    ELSE {}
        writers == (attached \cap w.openStreams) \cup reopened
        toFile == writers # {}
    IN  [w EXCEPT
            !.stderr = IF StreamHandler \in w.rootHandlers
                       THEN Append(@, Record(level, msg)) ELSE @,
            !.openStreams = @ \cup reopened,
            !.fileExists = @ \/ reopened # {},
            !.fileContent = IF toFile
                            THEN (IF w.fileExists THEN @ ELSE <<>>)
                                 \o Copies(Record(level, msg), Cardinality(writers))
                            ELSE @]

logging_info(w, msg) == Log(w, "INFO", msg)
logging_error(w, msg) == Log(w, "ERROR", msg)

\* logging.shutdown(): every handler is flushed and closed; it stays attached
logging_shutdown(w) ==
    Step([w EXCEPT !.openStreams = {}, !.orphanStreams = {}], "shutdown")

\* ------------------------------------------------------------ LogManager
NewHandler(w) ==
    LET free == FileHandlers \ w.rootHandlers
    IN  CHOOSE h \in FileHandlers : free = {} \/ h \in free

\* add_file_handler that leaves the previous handler attached and open
add_file_handler_keeps_old(w) ==
    LET h == NewHandler(w)
    IN  IF CanWrite(w)
        THEN [w EXCEPT !.file_handler = h,
                       !.rootHandlers = @ \cup {h},
                       !.openStreams = @ \cup {h},
                       !.fileExists = TRUE,
                       !.fileContent = IF w.fileExists THEN @ ELSE <<>>]
        ELSE [w EXCEPT !.stdout = "Failed to create log file: {e}"]

\* add_file_handler that opens the file in mode 'w'
add_file_handler_truncating(w) ==
    LET w1 == IF w.file_handler # "None"
              THEN [w EXCEPT !.rootHandlers = @ \ {w.file_handler},
                             !.openStreams = @ \ {w.file_handler},
                             !.orphanStreams = @ \ {w.file_handler}]
              ELSE w
        h == NewHandler(w1)
    IN  IF CanWrite(w1)
        THEN [w1 EXCEPT !.file_handler = h,
                        !.rootHandlers = @ \cup {h},
                        !.openStreams = @ \cup {h},
                        !.fileExists = TRUE,
                        !.fileContent = <<>>]
        ELSE [w1 EXCEPT !.stdout = "Failed to create log file: {e}"]

add_file_handler(w) ==
    LET \* removeHandler(self.file_handler); self.file_handler.close()
        w1 == IF w.file_handler # "None"
              THEN [w EXCEPT !.rootHandlers = @ \ {w.file_handler},
                             !.openStreams = @ \ {w.file_handler},
                             !.orphanStreams = @ \ {w.file_handler}]
              ELSE w
        h == NewHandler(w1)
    IN  IF CanWrite(w1)
        THEN \* logging.FileHandler(path) opens the file in mode 'a'
             Step([w1 EXCEPT !.file_handler = h,
                             !.rootHandlers = @ \cup {h},
                             !.openStreams = @ \cup {h},
                             !.fileExists = TRUE,
                             !.fileContent = IF w1.fileExists THEN @ ELSE <<>>],
                  "attach")
        ELSE [w1 EXCEPT !.stdout = "Failed to create log file: {e}"]

\* remove_file_handler that forgets the handler without detaching or closing it
remove_file_handler_forgets(w) ==
    IF w.file_handler # "None" THEN [w EXCEPT !.file_handler = "None"] ELSE w

remove_file_handler(w) ==
    IF w.file_handler # "None"
    THEN Step([w EXCEPT !.rootHandlers = @ \ {w.file_handler},
                        !.openStreams = @ \ {w.file_handler},
                        !.orphanStreams = @ \ {w.file_handler},
                        !.file_handler = "None"],
              "detach")
    ELSE w

\* ensure_log_file_handler that does not look for the file on disk
ensure_only_when_none(w) ==
    IF w.log_enabled /\ w.file_handler = "None" THEN add_file_handler(w) ELSE w

ensure_log_file_handler(w) ==
    IF w.log_enabled /\ (w.file_handler = "None" \/ ~w.fileExists)
    THEN add_file_handler(w)
    ELSE w

setup_logging(w) ==
    LET w1 == [w EXCEPT !.rootHandlers = {StreamHandler}]
    IN  IF w1.log_enabled THEN add_file_handler(w1) ELSE w1

\* toggle_log_file that leaves the attaching to the first write
toggle_log_file_lazy(w) ==
    IF w.log_enabled
    THEN logging_info(w, "Log file enabled")
    ELSE logging_info(remove_file_handler(w), "Log file disabled")

\* toggle_log_file that logs its message before it changes the handler
toggle_log_file_logging_first(w) ==
    IF w.log_enabled
    THEN add_file_handler(logging_info(w, "Log file enabled"))
    ELSE remove_file_handler(logging_info(w, "Log file disabled"))

toggle_log_file(w) ==
    IF w.log_enabled
    THEN logging_info(add_file_handler(w), "Log file enabled")
    ELSE logging_info(remove_file_handler(w), "Log file disabled")

\* open(path, 'w'); f.write(''): w.ret is "exception" when the open is denied
truncate_file(w) ==
    IF CanTruncate(w)
    THEN Step([w EXCEPT !.fileExists = TRUE, !.fileContent = <<>>, !.ret = "None"],
              "truncate")
    ELSE Return(w, "exception")

reattach_if_enabled(w) == IF w.log_enabled THEN add_file_handler(w) ELSE w

\* clear_log_file that returns the error without attaching the handler again
clear_log_file_gives_up(w) ==
    LET w1 == ensure_log_file_handler(w)
        created == IF ~w1.fileExists THEN truncate_file(w1) ELSE Return(w1, "None")
    IN  IF created.ret = "exception"
        THEN Return(created, "False")
        ELSE LET w2 == truncate_file(remove_file_handler(created))
             IN  IF w2.ret = "exception"
                 THEN Return(w2, "False")
                 ELSE Return(logging_info(reattach_if_enabled(w2), "Log file cleared"),
                             "True")

\* clear_log_file that truncates with the handler still attached
clear_log_file_no_detach(w) ==
    LET w1 == ensure_log_file_handler(w)
        created == IF ~w1.fileExists THEN truncate_file(w1) ELSE Return(w1, "None")
    IN  IF created.ret = "exception"
        THEN Return(created, "False")
        ELSE LET w2 == truncate_file(created)
             IN  IF w2.ret = "exception"
                 THEN Return(reattach_if_enabled(w2), "False")
                 ELSE Return(logging_info(reattach_if_enabled(w2), "Log file cleared"),
                             "True")

\* clear_log_file that does not attach the handler again after truncating
clear_log_file_no_reattach(w) ==
    LET w1 == ensure_log_file_handler(w)
        created == IF ~w1.fileExists THEN truncate_file(w1) ELSE Return(w1, "None")
    IN  IF created.ret = "exception"
        THEN Return(created, "False")
        ELSE LET w2 == truncate_file(remove_file_handler(created))
             IN  IF w2.ret = "exception"
                 THEN Return(reattach_if_enabled(w2), "False")
                 ELSE Return(logging_info(w2, "Log file cleared"), "True")

clear_log_file(w) ==
    LET w1 == ensure_log_file_handler(w)
        created == IF ~w1.fileExists THEN truncate_file(w1) ELSE Return(w1, "None")
    IN  IF created.ret = "exception"
        THEN Return(created, "False")
        ELSE LET w2 == truncate_file(remove_file_handler(created))
             IN  IF w2.ret = "exception"
                 THEN Return(reattach_if_enabled(w2), "False")
                 ELSE Return(logging_info(reattach_if_enabled(w2), "Log file cleared"),
                             "True")

\* delete_log_file that gives up without attaching the handler again
delete_log_file_no_reattach(w) ==
    IF ~w.fileExists
    THEN Return(w, "False")
    ELSE LET w1 == Step(logging_shutdown(remove_file_handler(w)), "probe")
         IN  IF ~CanRead(w1) \/ ~CanRemove(w1)
             THEN Return(w1, "False")
             ELSE Return(Step([w1 EXCEPT !.fileExists = FALSE, !.fileContent = <<>>,
                                         !.removedBy = "delete_log_file"],
                              "remove"),
                         "True")

\* delete_log_file without the probe that opens the file for reading
delete_log_file_without_probe(w) ==
    IF ~w.fileExists
    THEN Return(w, "False")
    ELSE LET w1 == logging_shutdown(remove_file_handler(w))
         IN  IF ~CanRemove([w1 EXCEPT !.extLock =
                                IF @ = "unreadable" THEN "none" ELSE @])
             THEN Return(reattach_if_enabled(w1), "False")
             ELSE Return(Step([w1 EXCEPT !.fileExists = FALSE, !.fileContent = <<>>,
                                         !.removedBy = "delete_log_file"],
                              "remove"),
                         "True")

\* delete_log_file that removes the file with the handler still attached
delete_log_file_keeps_handler(w) ==
    IF ~w.fileExists
    THEN Return(w, "False")
    ELSE IF ~CanRead(w) \/ ~CanRemove(w)
    THEN Return(w, "False")
    ELSE Return([w EXCEPT !.fileExists = FALSE, !.fileContent = <<>>,
                          !.orphanStreams = @ \cup w.openStreams,
                          !.openStreams = {},
                          !.removedBy = "delete_log_file"],
                "True")

delete_log_file(w) ==
    IF ~w.fileExists
    THEN Return(w, "False")
    ELSE LET w1 == Step(logging_shutdown(remove_file_handler(w)), "probe")
         IN  IF ~CanRead(w1)
             THEN \* the probe open(path, 'r') raises PermissionError
                  Return(reattach_if_enabled(w1), "False")
             ELSE IF ~CanRemove(w1)
             THEN \* os.remove raises PermissionError
                  Return(reattach_if_enabled(w1), "False")
             ELSE Return(Step([w1 EXCEPT !.fileExists = FALSE, !.fileContent = <<>>,
                                         !.removedBy = "delete_log_file"],
                              "remove"),
                         "True")

\* the bytes of one line of the log file, written with the format
\* '%(asctime)s - %(levelname)s - %(message)s': asctime is 23 characters
\* ("2024-01-01 12:00:00,000"), each " - " is 3, and the line ends with "\n"
LineBytes(line) == 23 + 3 + Len(line.level) + 3 + Len(line.msg) + 1

\* os.path.getsize(self.log_file_path)
RECURSIVE getsize(_)
getsize(content) ==
    IF content = <<>> THEN 0 ELSE LineBytes(Head(content)) + getsize(Tail(content))

\* f"{size / unit:.1f}": the quotient rounded to one decimal, ties to even (the
\* quotient by a power of two is exact in a float)
OneDecimal(size, unit) ==
    LET q == (size * 10) \div unit
        r == (size * 10) % unit
        tenths == IF 2 * r > unit \/ (2 * r = unit /\ q % 2 = 1) THEN q + 1 ELSE q
    IN  ToString(tenths \div 10) \o "." \o ToString(tenths % 10)

\* the size text with the thresholds counted to the smaller unit
size_text_inclusive(size) ==
    IF size <= 1024 THEN ToString(size) \o " B"
    ELSE IF size <= 1024 * 1024 THEN OneDecimal(size, 1024) \o " KB"
    ELSE OneDecimal(size, 1024 * 1024) \o " MB"

\* the text get_log_file_size returns for a file of size bytes
size_text(size) ==
    IF size < 1024 THEN ToString(size) \o " B"
    ELSE IF size < 1024 * 1024 THEN OneDecimal(size, 1024) \o " KB"
    ELSE OneDecimal(size, 1024 * 1024) \o " MB"

\* get_log_file_size that reports a missing file as an empty one
get_log_file_size_of_missing(w) ==
    IF w.fileExists THEN size_text(getsize(w.fileContent)) ELSE size_text(0)

\* get_log_file_size where os.path.exists answers exists and os.path.getsize
\* answers size
log_file_size_text(exists, size) == IF exists THEN size_text(size) ELSE "N/A"

get_log_file_size(w) == log_file_size_text(w.fileExists, getsize(w.fileContent))

\* ------------------------------------------------------------ SerialManager
\* openOk: whether the OS lets serial.Serial(...) open the port now
\* open_connection without the close of the previous connection
open_connection_no_close(w, p, openOk) ==
    IF p = ""
    THEN Return(w, "False")
    ELSE IF openOk
    THEN Return([w EXCEPT !.serial_connection = "open",
                          !.handles = @ + 1, !.opens = @ + 1],
                "True")
    ELSE Return(logging_error(w, "Failed to open serial connection: {e}"), "False")

open_connection(w, p, openOk) ==
    IF p = ""
    THEN Return(w, "False")
    ELSE LET \* self.close_connection(), then the attempt serial.Serial(...)
             w1 == Step(IF w.serial_connection = "open"
                        THEN [w EXCEPT !.serial_connection = "closed",
                                       !.handles = @ - 1, !.closes = @ + 1]
                        ELSE w,
                        "open")
         IN  IF openOk
             THEN Return([w1 EXCEPT !.serial_connection = "open",
                                    !.handles = @ + 1, !.opens = @ + 1],
                         "True")
             ELSE Return(logging_error(w1, "Failed to open serial connection: {e}"),
                         "False")

close_connection(w) ==
    IF w.serial_connection = "open"
    THEN [w EXCEPT !.serial_connection = "closed",
                   !.handles = @ - 1, !.closes = @ + 1]
    ELSE w

\* writeOk: whether the device takes the bytes
send_command(w, command, writeOk) ==
    IF w.serial_connection # "open"
    THEN Return(w, "False")
    ELSE LET \* the attempt self.serial_connection.write(...)
             w1 == Step(w, "write")
         IN  IF writeOk
             THEN Return([w1 EXCEPT !.writes = @ + 1, !.lastWrite = command], "True")
             ELSE Return(logging_error(w1, "Failed to send command: {e}"), "False")

\* ------------------------------------------------------------ SerialSenderGUI
_update_status(w, message) ==
    logging_info([ensure_log_file_handler(w) EXCEPT !.status_var = message], message)

_show_error(w, message) ==
    logging_error([ensure_log_file_handler(w) EXCEPT !.status_var = "Error: " \o message],
                  message)

\* _execute_serial_operation that closes only after a successful write
execute_without_finally(w, command, openOk, writeOk) ==
    IF w.port = ""
    THEN IF w.program = "GUI-Serial-v2.py"
         THEN Return([w EXCEPT !.status_var = "Warning: No serial port selected"],
                     "False")
         ELSE Return(_show_error(w, "Select a serial port."), "False")
    ELSE LET w1 == open_connection(w, w.port, openOk)
         IN  IF w1.ret # "True"
             THEN Return(_show_error(w1, "Failed to open serial connection."), "False")
             ELSE LET w2 == send_command(w1, command, writeOk)
                  IN  IF w2.ret # "True"
                      THEN Return(_show_error(w2, "Failed to send command."), "False")
                      ELSE Return(close_connection(w2), "True")

\* _execute_serial_operation that tries the write once more when it fails
execute_with_retry(w, command, openOk, writeOk) ==
    IF w.port = ""
    THEN IF w.program = "GUI-Serial-v2.py"
         THEN Return([w EXCEPT !.status_var = "Warning: No serial port selected"],
                     "False")
         ELSE Return(_show_error(w, "Select a serial port."), "False")
    ELSE LET w1 == open_connection(w, w.port, openOk)
         IN  IF w1.ret # "True"
             THEN Return(_show_error(w1, "Failed to open serial connection."), "False")
             ELSE LET first == send_command(w1, command, writeOk)
                      w2 == IF first.ret # "True"
                            THEN send_command(first, command, writeOk)
                            ELSE first
                      w3 == IF w2.ret # "True"
                            THEN Return(_show_error(w2, "Failed to send command."),
                                        "False")
                            ELSE Return(w2, "True")
                  IN  Return(close_connection(w3), w3.ret)

\* _execute_serial_operation that leaves the empty port to open_connection
execute_without_port_check(w, command, openOk, writeOk) ==
    LET w1 == open_connection(w, w.port, openOk)
    IN  IF w1.ret # "True"
        THEN Return(_show_error(w1, "Failed to open serial connection."), "False")
        ELSE LET w2 == send_command(w1, command, writeOk)
                 w3 == IF w2.ret # "True"
                       THEN Return(_show_error(w2, "Failed to send command."), "False")
                       ELSE Return(w2, "True")
             IN  Return(close_connection(w3), w3.ret)

_execute_serial_operation(w, command, openOk, writeOk) ==
    IF w.port = ""
    THEN IF w.program = "GUI-Serial-v2.py"
         THEN Return([w EXCEPT !.status_var = "Warning: No serial port selected"],
                     "False")
         ELSE Return(_show_error(w, "Select a serial port."), "False")
    ELSE LET w1 == open_connection(w, w.port, openOk)
         IN  IF w1.ret # "True"
             THEN Return(_show_error(w1, "Failed to open serial connection."), "False")
             ELSE LET w2 == send_command(w1, command, writeOk)
                      w3 == IF w2.ret # "True"
                            THEN Return(_show_error(w2, "Failed to send command."),
                                        "False")
                            ELSE Return(w2, "True")
                  IN  \* finally:
                      Return(close_connection(w3), w3.ret)

\* str(list) of integers: "[1, 2, 3]"
RECURSIVE JoinInts(_)
JoinInts(values) ==
    IF values = <<>> THEN ""
    ELSE IF Len(values) = 1 THEN ToString(values[1])
    ELSE ToString(values[1]) \o ", " \o JoinInts(Tail(values))

ListRepr(values) == "[" \o JoinInts(values) \o "]"

\* the field list with the fields numbered from 1
RECURSIVE FieldList_from_one(_, _, _)
FieldList_from_one(letter, values, i) ==
    IF i >= Len(values) THEN <<>>
    ELSE (IF i = 0 THEN <<>> ELSE <<",">>)
         \o <<letter>> \o PyStr(i + 1) \o <<":">> \o PyStr(values[i + 1])
         \o FieldList_from_one(letter, values, i + 1)

\* "p0:{v0},p1:{v1},..." for the prefix letter and the values from index i
RECURSIVE FieldList(_, _, _)
FieldList(letter, values, i) ==
    IF i >= Len(values) THEN <<>>
    ELSE (IF i = 0 THEN <<>> ELSE <<",">>)
         \o <<letter>> \o PyStr(i) \o <<":">> \o PyStr(values[i + 1])
         \o FieldList(letter, values, i + 1)

\* _switch_tab that shows the tab only after its mode command was delivered
_switch_tab_when_delivered(w, tab_name, openOk, writeOk) ==
    IF w.port # ""
    THEN LET mode_cmd == IF tab_name = "donmota" THEN <<"m", "d">> ELSE <<"m", "r">>
             w1 == _execute_serial_operation(w, mode_cmd, openOk, writeOk)
         IN  IF w1.ret = "True"
             THEN Return(_update_status([w1 EXCEPT !.current_tab = tab_name],
                                        "Switched to " \o tab_name \o " mode"),
                         "None")
             ELSE Return(w1, "None")
    ELSE Return(_update_status([w EXCEPT !.current_tab = tab_name],
                               "Switched to " \o tab_name
                               \o " mode (no serial port selected)"),
                "None")

_switch_tab(w, tab_name, openOk, writeOk) ==
    LET w1 == [w EXCEPT !.current_tab = tab_name]
    IN  IF w1.port # ""
        THEN LET mode_cmd == IF tab_name = "donmota" THEN <<"m", "d">> ELSE <<"m", "r">>
             IN  Return(_update_status(
                            _execute_serial_operation(w1, mode_cmd, openOk, writeOk),
                            "Switched to " \o tab_name \o " mode"),
                        "None")
        ELSE Return(_update_status(w1, "Switched to " \o tab_name
                                       \o " mode (no serial port selected)"),
                    "None")

_set_canid(w, canid, openOk, writeOk) ==
    LET r == validate_can_id(canid)
    IN  IF ~r.is_valid
        THEN Return(_show_error(w, r.error_msg), "None")
        ELSE LET cid == r.value[1]
                 w1 == _execute_serial_operation(w, <<"c">> \o PyStr(cid), openOk, writeOk)
             IN  IF w1.ret = "True"
                 THEN Return(_update_status(w1, "Set CAN ID: " \o ToString(cid)), "None")
                 ELSE Return(w1, "None")

_set_robomas_count(w, count_str, openOk, writeOk) ==
    LET r == PyInt(Strip(count_str))
    IN  IF ~r.ok
        THEN Return(_show_error(w, "Invalid robomas count (must be integer)"), "None")
        ELSE IF ROBOMAS_COUNT_MIN <= r.v /\ r.v <= ROBOMAS_COUNT_MAX
        THEN LET w1 == _execute_serial_operation(w, <<"n">> \o PyStr(r.v), openOk, writeOk)
             IN  IF w1.ret = "True"
                 THEN Return(_update_status(w1, "Set Robomas count: " \o ToString(r.v)),
                             "None")
                 ELSE Return(w1, "None")
        ELSE Return(_show_error(w, "Robomas count must be between 1 and 8"), "None")

_send_all_pwm(w, pwm_values, openOk, writeOk) ==
    LET r == validate_pwm_values(pwm_values)
    IN  IF ~r.is_valid
        THEN Return(_show_error(w, r.error_msg), "None")
        ELSE LET pwm_cmd == FieldList("p", SubSeq(r.value, 1, PWM_COUNT), 0)
                 w1 == _execute_serial_operation(w, pwm_cmd, openOk, writeOk)
             IN  IF w1.ret = "True"
                 THEN Return(_update_status(w1, "Sent PWM values: " \o ListRepr(r.value)),
                             "None")
                 ELSE Return(w1, "None")

_send_all_robomas(w, robomas_values, openOk, writeOk) ==
    LET r == validate_robomas_values(robomas_values)
    IN  IF ~r.is_valid
        THEN Return(_show_error(w, r.error_msg), "None")
        ELSE LET robomas_cmd == FieldList("r", SubSeq(r.value, 1, ROBOMAS_COUNT), 0)
                 w1 == _execute_serial_operation(w, robomas_cmd, openOk, writeOk)
             IN  IF w1.ret = "True"
                 THEN Return(_update_status(w1, "Sent Robomas values: "
                                                \o ListRepr(r.value)),
                             "None")
                 ELSE Return(w1, "None")

_send_value(w, value, openOk, writeOk) ==
    LET r == validate_pwm_value(value)
    IN  IF ~r.is_valid
        THEN Return(_show_error(w, r.error_msg), "None")
        ELSE LET v == r.value[1]
                 w1 == _execute_serial_operation(w, PyStr(v), openOk, writeOk)
             IN  IF w1.ret = "True"
                 THEN Return(_update_status(
                                 w1,
                                 (IF w.program = "GUI-Serial-v2.py"
                                  THEN "Sent PWM value: " ELSE "Sent value: ")
                                 \o ToString(v)),
                             "None")
                 ELSE Return(w1, "None")

_send_robomas_value(w, value, openOk, writeOk) ==
    LET r == validate_robomas_value(value)
    IN  IF ~r.is_valid
        THEN Return(_show_error(w, r.error_msg), "None")
        ELSE LET v == r.value[1]
                 w1 == _execute_serial_operation(w, PyStr(v), openOk, writeOk)
             IN  IF w1.ret = "True"
                 THEN Return(_update_status(w1, "Sent Robomas value: " \o ToString(v)),
                             "None")
                 ELSE Return(w1, "None")

_send_cmd(w, cmd, openOk, writeOk) ==
    LET w1 == _execute_serial_operation(w, <<cmd>>, openOk, writeOk)
    IN  IF w1.ret = "True"
        THEN Return(_update_status(w1, "Sent command: " \o cmd), "None")
        ELSE Return(w1, "None")

_clear_log_file(w) ==
    LET w1 == clear_log_file(w)
    IN  IF w1.ret = "True"
        THEN Return(_update_status(w1, "Log file cleared"), "None")
        ELSE Return(w1, "None")

\* ------------------------------------------------------------ send.py
\* one run of the script with argv = [send.py, p, value]; w.ret is "exception"
\* when the run ends in an uncaught exception.  The OS releases the port when
\* the process ends.
send_py(w, p, value, openOk, writeOk) ==
    IF ~openOk
    THEN Return([w EXCEPT !.ser = "None"], "exception")
    ELSE LET w1 == [w EXCEPT !.ser = "open", !.handles = @ + 1, !.opens = @ + 1]
             closed(x) == [x EXCEPT !.ser = "closed", !.handles = @ - 1,
                                    !.closes = @ + 1]
             aborted(x) == Return([x EXCEPT !.handles = @ - 1], "exception")
             written(x, bytes) == [x EXCEPT !.writes = @ + 1, !.lastWrite = bytes]
         IN  IF value = <<"i">> \/ value = <<"o">>
             THEN IF writeOk THEN Return(closed(written(w1, value)), "None")
                  ELSE aborted(w1)
             ELSE LET r == PyInt(value)
                  IN  IF ~r.ok
                      THEN Return(closed([w1 EXCEPT !.stdout = "Invalid value"]), "None")
                      ELSE IF -25000 <= r.v /\ r.v <= 25000
                      THEN IF writeOk
                           THEN Return(closed(written(w1, PyStr(r.v) \o <<"\n">>)),
                                       "None")
                           ELSE aborted(w1)
                      ELSE Return(closed([w1 EXCEPT !.stdout = "Value out of range"]),
                                  "None")

\* ------------------------------------------------------------ Start-up
\* a line an earlier run of the program left in the log file
OldLine == Record("INFO", "Sent command: o")

OldContent == <<OldLine>>

\* the state when the program p starts: nothing constructed yet, the log file
\* as earlier runs and other processes left it
Blank(p, exists, content, lock) ==
    [program |-> p, port |-> "", current_tab |-> "", status_var |-> "",
     serial_connection |-> "None", ser |-> "None", handles |-> 0, opens |-> 0,
     closes |-> 0, writes |-> 0, lastWrite |-> <<>>, log_enabled |-> FALSE,
     file_handler |-> "None", rootHandlers |-> {}, openStreams |-> {},
     orphanStreams |-> {}, fileExists |-> exists,
     fileContent |-> IF exists THEN content ELSE <<>>, extLock |-> lock,
     removedBy |-> "nobody",
     stderr |-> <<>>, stdout |-> "", ret |-> "None", steps |-> <<>>]

\* LogManager.__init__
LogManager_init(w) == setup_logging([w EXCEPT !.log_enabled = TRUE, !.file_handler = "None"])

\* SerialSenderGUI.__init__ with _setup_layout
SerialSenderGUI_init(w) ==
    LET w1 == LogManager_init([w EXCEPT !.serial_connection = "None"])
    IN  IF w.program = "GUI-Serial-v2.py"
        THEN _update_status([w1 EXCEPT !.current_tab = "donmota"],
                            "Ready - Please select a serial port")
        ELSE w1

Boot(p, exists, content, lock) ==
    IF p \in GuiPrograms
    THEN SerialSenderGUI_init(Blank(p, exists, content, lock))
    ELSE Blank(p, exists, content, lock)

\* records the stream sink holds when the start-up is over
StartupRecords(p) == IF p = "GUI-Serial-v2.py" THEN 1 ELSE 0

MayLog == Len(stderr) < StartupRecords(program) + MaxStream

MayOpen == opens < MaxOpens

\* ------------------------------------------------------------ Inputs
\* what the serial device does during one operation: the open succeeds or not,
\* and a write after a successful open succeeds or not
Devices == {[openOk |-> TRUE, writeOk |-> TRUE], [openOk |-> TRUE, writeOk |-> FALSE],
            [openOk |-> FALSE, writeOk |-> FALSE]}

\* with no port selected the device is never asked
Device == IF port = "" /\ program \in GuiPrograms
          THEN {[openOk |-> FALSE, writeOk |-> FALSE]}
          ELSE Devices

Ports == {"", "COM3"}
Tabs == {"donmota", "robomas"}
Cmds == {"i", "o"}

NotInteger == <<"x">>
Blanks == <<" ">>
Padded(v) == <<" ">> \o PyStr(v) \o <<" ">>

CanIdTexts == {PyStr(CAN_ID_MIN - 1), PyStr(CAN_ID_MAX), PyStr(CAN_ID_MAX + 1), NotInteger}
CountTexts == {PyStr(ROBOMAS_COUNT_MIN - 1), PyStr(ROBOMAS_COUNT_MAX),
               PyStr(ROBOMAS_COUNT_MAX + 1), NotInteger}
PwmTexts == {PyStr(PWM_MIN_VALUE - 1), PyStr(PWM_MIN_VALUE), PyStr(PWM_MAX_VALUE + 1),
             NotInteger}
RobomasTexts == {PyStr(ROBOMAS_MIN_VALUE - 1), PyStr(ROBOMAS_MAX_VALUE),
                 PyStr(ROBOMAS_MAX_VALUE + 1), <<>>}
PwmLists ==
    {<<PyStr(100), PyStr(-200), PyStr(300), PyStr(0)>>,
     <<PyStr(0), PyStr(1), PyStr(2), NotInteger>>,
     <<PyStr(PWM_MAX_VALUE), PyStr(PWM_MAX_VALUE + 1), NotInteger, PyStr(0)>>}
RobomasLists ==
    {<<PyStr(1), <<>>, Blanks, PyStr(ROBOMAS_MIN_VALUE), <<>>, <<>>, <<>>,
       PyStr(ROBOMAS_MAX_VALUE)>>,
     <<<<>>, <<>>, <<>>, <<>>, <<>>, PyStr(ROBOMAS_MAX_VALUE + 1), NotInteger, <<>>>>}
ScriptValues == {<<"i">>, PyStr(-25001), PyStr(25000), PyStr(25001), Padded(7),
                 NotInteger}

\* ------------------------------------------------------------ Actions
Init ==
    \E p \in Programs, exists \in BOOLEAN :
        LET w == Boot(p, exists, OldContent, "none")
        IN  /\ program = w.program /\ port = w.port /\ current_tab = w.current_tab
            /\ status_var = w.status_var
            /\ serial_connection = w.serial_connection /\ ser = w.ser
            /\ handles = w.handles /\ opens = w.opens /\ closes = w.closes
            /\ writes = w.writes /\ lastWrite = w.lastWrite
            /\ log_enabled = w.log_enabled /\ file_handler = w.file_handler
            /\ rootHandlers = w.rootHandlers /\ openStreams = w.openStreams
            /\ orphanStreams = w.orphanStreams /\ fileExists = w.fileExists
            /\ fileContent = w.fileContent /\ extLock = w.extLock
            /\ removedBy = w.removedBy
            /\ stderr = w.stderr /\ stdout = w.stdout
            /\ last = [op |-> "start", args |-> <<>>, ret |-> "None", steps |-> w.steps]

\* the operator picks a port in the combo box
SelectPort ==
    \E p \in Ports :
        /\ program \in GuiPrograms
        /\ p # port
        /\ Commit([World EXCEPT !.port = p], "select_port", <<>>)

SwitchTab ==
    \E t \in Tabs, d \in Device :
        /\ program = "GUI-Serial-v2.py" /\ MayLog /\ MayOpen
        /\ Commit(_switch_tab(World, t, d.openOk, d.writeOk), "_switch_tab", <<t>>)

SetCanId ==
    \E text \in CanIdTexts, d \in Device :
        /\ program \in GuiPrograms /\ MayLog /\ MayOpen
        /\ Commit(_set_canid(World, text, d.openOk, d.writeOk), "_set_canid", <<text>>)

SetRobomasCount ==
    \E text \in CountTexts, d \in Device :
        /\ program = "GUI-Serial-v2.py" /\ MayLog /\ MayOpen
        /\ Commit(_set_robomas_count(World, text, d.openOk, d.writeOk),
                  "_set_robomas_count", <<text>>)

SendAllPwm ==
    \E texts \in PwmLists, d \in Device :
        /\ program \in GuiPrograms /\ MayLog /\ MayOpen
        /\ Commit(_send_all_pwm(World, texts, d.openOk, d.writeOk), "_send_all_pwm", texts)

SendAllRobomas ==
    \E texts \in RobomasLists, d \in Device :
        /\ program = "GUI-Serial-v2.py" /\ MayLog /\ MayOpen
        /\ Commit(_send_all_robomas(World, texts, d.openOk, d.writeOk),
                  "_send_all_robomas", texts)

SendValue ==
    \E text \in PwmTexts, d \in Device :
        /\ program \in GuiPrograms /\ MayLog /\ MayOpen
        /\ Commit(_send_value(World, text, d.openOk, d.writeOk), "_send_value", <<text>>)

SendRobomasValue ==
    \E text \in RobomasTexts, d \in Device :
        /\ program = "GUI-Serial-v2.py" /\ MayLog /\ MayOpen
        /\ Commit(_send_robomas_value(World, text, d.openOk, d.writeOk),
                  "_send_robomas_value", <<text>>)

SendCmd ==
    \E c \in Cmds, d \in Device :
        /\ program \in GuiPrograms /\ MayLog /\ MayOpen
        /\ Commit(_send_cmd(World, c, d.openOk, d.writeOk), "_send_cmd", <<>>)

\* one run of send.py from the command line
ScriptRun ==
    \E value \in ScriptValues, d \in Device :
        /\ program = "send.py" /\ MayOpen
        /\ Commit(send_py(World, "COM3", value, d.openOk, d.writeOk), "send.py", <<value>>)

Next ==
    \/ SelectPort
    \/ SwitchTab
    \/ SetCanId
    \/ SetRobomasCount
    \/ SendAllPwm
    \/ SendAllRobomas
    \/ SendValue
    \/ SendRobomasValue
    \/ SendCmd
    \/ ScriptRun

Spec == Init /\ [][Next]_vars

\* ------------------------------------------------------------ SerialManager alone
\* The methods of SerialManager called in any order.
MayWrite == writes < MaxWrites

OpenConnection ==
    \E p \in Ports, openOk \in BOOLEAN :
        /\ program \in GuiPrograms /\ MayLog /\ MayOpen
        /\ Commit(open_connection(World, p, openOk), "open_connection",
                  <<serial_connection>>)

CloseConnection ==
    /\ program \in GuiPrograms
    /\ Commit(Return(close_connection(World), "None"), "close_connection",
              <<serial_connection>>)

SendCommand ==
    \E c \in Cmds, writeOk \in BOOLEAN :
        /\ program \in GuiPrograms /\ MayLog /\ MayWrite
        /\ Commit(send_command(World, <<c>>, writeOk), "send_command",
                  <<serial_connection>>)

NextSerialManager ==
    \/ OpenConnection
    \/ CloseConnection
    \/ SendCommand

SpecSerialManager == Init /\ [][NextSerialManager]_vars

\* ------------------------------------------------------------ LogManager and its callers
\* The operations on the log file in any order, with another process removing
\* or locking the file in between.
MayLogMore == Len(stderr) < StartupRecords(program) + MaxRecords

StatusMessages == {"Port list refreshed"}
ErrorMessages == {"Failed to send command."}

UpdateStatus ==
    \E message \in StatusMessages :
        /\ program \in GuiPrograms /\ MayLogMore
        /\ Commit(Return(_update_status(World, message), "None"), "_update_status",
                  <<message>>)

ShowError ==
    \E message \in ErrorMessages :
        /\ program \in GuiPrograms /\ MayLogMore
        /\ Commit(Return(_show_error(World, message), "None"), "_show_error",
                  <<message>>)

\* a click on the "Create Log File" check box: the variable flips, then the command
ToggleLogFile ==
    /\ program \in GuiPrograms /\ MayLogMore
    /\ Commit(Return(toggle_log_file([World EXCEPT !.log_enabled = ~log_enabled]),
                     "None"),
              "toggle_log_file", <<>>)

\* the "Clear Log File" button, confirmed
ClearLogFileButton ==
    /\ program \in GuiPrograms /\ MayLogMore
    /\ Commit(_clear_log_file(World), "_clear_log_file", <<>>)

ClearLogFile ==
    /\ program \in GuiPrograms /\ MayLogMore
    /\ Commit(clear_log_file(World), "clear_log_file", <<>>)

DeleteLogFile ==
    /\ program \in GuiPrograms
    /\ Commit(delete_log_file(World), "delete_log_file", <<>>)

\* another process removes the log file; streams open on it stay open, and
\* what was denied on the file itself goes with it
ExternalRemove ==
    /\ program \in GuiPrograms /\ fileExists
    /\ Commit([World EXCEPT !.fileExists = FALSE, !.fileContent = <<>>,
                            !.orphanStreams = @ \cup openStreams,
                            !.openStreams = {},
                            !.extLock = IF @ = "exclusive" THEN @ ELSE "none",
                            !.removedBy = "another process"],
              "removed by another process", <<>>)

\* another process takes or releases its hold on the log file; on a missing
\* file only the path can be denied
ExternalLock ==
    \E m \in LockModes :
        /\ program \in GuiPrograms /\ m # extLock
        /\ fileExists \/ m \in {"none", "exclusive"}
        /\ Commit([World EXCEPT !.extLock = m], "locked by another process", <<>>)

NextLog ==
    \/ UpdateStatus
    \/ ShowError
    \/ ToggleLogFile
    \/ ClearLogFileButton
    \/ ClearLogFile
    \/ DeleteLogFile
    \/ ExternalRemove
    \/ ExternalLock

SpecLog == Init /\ [][NextLog]_vars

\* ------------------------------------------------------------ Helpers alone
\* The validators, the set-all handlers and the size label, each applied once
\* to an input drawn from around the limits.

\* how far around each limit the sampled integers reach
Spread == 10

Near(c) == (c - Spread)..(c + Spread)

PwmSample == Near(PWM_MIN_VALUE) \cup Near(0) \cup Near(PWM_MAX_VALUE)
RobomasSample == Near(ROBOMAS_MIN_VALUE) \cup Near(0) \cup Near(ROBOMAS_MAX_VALUE)

\* what an entry field holds for the integer v: its decimal text, bare or
\* with blanks around
Typed(v) == {PyStr(v), Padded(v)}

\* entry texts that are not the decimal text of an integer
NotIntegers == {<<>>, Blanks, NotInteger, <<"1", ".", "5">>, <<"-">>, <<"1", " ", "2">>}

PwmFieldTexts == UNION {Typed(v) : v \in PwmSample} \cup NotIntegers

\* the four PWM entry fields
PwmGrid ==
    LET E == {PyStr(0), PyStr(1), PyStr(2), PyStr(-200), Padded(PWM_MAX_VALUE),
              PyStr(PWM_MAX_VALUE + 1), NotInteger}
    IN  {<<a, b, c, d>> : a \in E, b \in E, c \in E, d \in E}

\* the eight Robomas entry fields: all empty or all filled, then up to two of
\* them retyped
RobomasGrid ==
    LET E == {<<>>, Blanks, PyStr(5), Padded(ROBOMAS_MIN_VALUE),
              PyStr(ROBOMAS_MAX_VALUE + 1), NotInteger}
        Bases == {[i \in 1..ROBOMAS_COUNT |-> <<>>],
                  [i \in 1..ROBOMAS_COUNT |-> PyStr(100 * i - 400)]}
    IN  {[i \in 1..ROBOMAS_COUNT |-> IF i = a THEN e1 ELSE IF i = b THEN e2 ELSE base[i]] :
            a \in 1..ROBOMAS_COUNT, b \in 1..ROBOMAS_COUNT, e1 \in E, e2 \in E,
            base \in Bases}

\* sizes os.path.getsize can answer: around zero and the two thresholds, and
\* sizes whose quotient lies halfway between two decimals
SizeSample ==
    0..Spread \cup Near(1024) \cup Near(1024 * 1024) \cup {1280, 1792, 1572864}

\* nothing but the choice of a port has happened yet
Untouched == last.op \in {"start", "select_port"}

ValidatePwmValue ==
    /\ program \in GuiPrograms /\ last.op = "start"
    /\ \E text \in PwmFieldTexts :
           Commit(Return(World, validate_pwm_value(text)), "validate_pwm_value", <<text>>)

ValidatePwmValues ==
    /\ program = "GUI-Serial-v2.py" /\ last.op = "start"
    /\ \E texts \in PwmGrid :
           Commit(Return(World, validate_pwm_values(texts)), "validate_pwm_values", texts)

ValidateRobomasValues ==
    /\ program = "GUI-Serial-v2.py" /\ last.op = "start"
    /\ \E texts \in RobomasGrid :
           Commit(Return(World, validate_robomas_values(texts)),
                  "validate_robomas_values", texts)

PressSendAllPwm ==
    /\ program \in GuiPrograms /\ Untouched
    /\ \E texts \in PwmGrid, d \in Device :
           Commit(_send_all_pwm(World, texts, d.openOk, d.writeOk), "_send_all_pwm", texts)

PressSendAllRobomas ==
    /\ program = "GUI-Serial-v2.py" /\ Untouched
    /\ \E texts \in RobomasGrid, d \in Device :
           Commit(_send_all_robomas(World, texts, d.openOk, d.writeOk),
                  "_send_all_robomas", texts)

\* _refresh_log_size: the label asks for the size of the log file
RefreshLogSize ==
    /\ program \in GuiPrograms /\ last.op \in {"start", "removed by another process"}
    /\ \E size \in SizeSample :
           /\ fileExists \/ size = 0
           /\ Commit(Return(World, log_file_size_text(fileExists, size)),
                     "get_log_file_size", <<size>>)

\* the operator picks a port before anything else
SelectPortFirst == last.op = "start" /\ SelectPort

\* another process removes the log file before anything else
ExternalRemoveFirst == last.op = "start" /\ ExternalRemove

NextHelpers ==
    \/ SelectPortFirst
    \/ ExternalRemoveFirst
    \/ ValidatePwmValue
    \/ ValidatePwmValues
    \/ ValidateRobomasValues
    \/ PressSendAllPwm
    \/ PressSendAllRobomas
    \/ RefreshLogSize

SpecHelpers == Init /\ [][NextHelpers]_vars

\* ------------------------------------------------------------ Properties
Last(seq) == seq[Len(seq)]

IsPrefix(a, b) == Len(a) <= Len(b) /\ SubSeq(b, 1, Len(a)) = a

\* C1: in both GUI variants no logical send leaves the serial connection open
\* when it returns: between two operations the connection is closed, the
\* process holds no port, and every successful open has had its close.
NoConnectionHeldAfterSend ==
    program \in GuiPrograms =>
        /\ serial_connection # "open"
        /\ handles = 0
        /\ closes = opens

\* two sends opened the port; the write of one succeeded, the write of the
\* other failed
TwoSendsOneFailedWrite ==
    /\ program \in GuiPrograms
    /\ opens = 2 /\ closes = 2 /\ writes = 1
    /\ status_var = "Error: Failed to send command."

\* C2: whatever the order of open_connection, send_command and
\* close_connection, the process holds at most one serial port open, and it
\* holds one exactly when serial_connection is open.
AtMostOneConnectionOpen ==
    /\ handles <= 1
    /\ (handles = 1) <=> (serial_connection = "open")

\* open_connection found the previous connection still open and opened a new one
ReopenedWithoutClose ==
    /\ last.op = "open_connection" /\ last.ret = "True"
    /\ last.args = <<"open">>
    /\ opens = 2 /\ closes = 1 /\ handles = 1

\* "not an integer, or out of range"
NotIntegerIn(text, lo, hi) ==
    \/ ~PyInt(text).ok
    \/ PyInt(text).v < lo
    \/ PyInt(text).v > hi

\* the input of the operation op fails validation
FailsValidation(op, args) ==
    CASE op = "_set_canid" -> NotIntegerIn(args[1], 1, 4)
      [] op = "_set_robomas_count" -> NotIntegerIn(args[1], 1, 8)
      [] op = "_send_value" -> NotIntegerIn(args[1], -25000, 25000)
      [] op = "_send_robomas_value" -> NotIntegerIn(args[1], -10000, 10000)
      [] op = "_send_all_pwm" ->
            \E i \in 1..Len(args) : NotIntegerIn(args[i], -25000, 25000)
      [] op = "_send_all_robomas" ->
            \E i \in 1..Len(args) :
                Strip(args[i]) # <<>> /\ NotIntegerIn(args[i], -10000, 10000)
      [] op = "send.py" ->
            args[1] \notin {<<"i">>, <<"o">>} /\ NotIntegerIn(args[1], -25000, 25000)
      [] OTHER -> FALSE

\* C3: an operation whose input fails validation leaves the serial link
\* untouched: it opens no port and writes no bytes.  This is the claim for every
\* sender, send.py included.
RejectedInputLeavesLinkUntouched ==
    [][FailsValidation(last'.op, last'.args) =>
            /\ opens' = opens /\ closes' = closes /\ handles' = handles
            /\ writes' = writes /\ lastWrite' = lastWrite
            /\ serial_connection' = serial_connection]_vars

\* a decimal integer as f"{v}" writes it, within lo..hi
DecimalIn(text, lo, hi) ==
    /\ PyInt(text).ok
    /\ PyStr(PyInt(text).v) = text
    /\ lo <= PyInt(text).v /\ PyInt(text).v <= hi

\* the fields of s between the separators sep
RECURSIVE Split(_, _, _)
Split(s, sep, field) ==
    IF s = <<>> THEN <<field>>
    ELSE IF Head(s) = sep THEN <<field>> \o Split(Tail(s), sep, <<>>)
    ELSE Split(Tail(s), sep, Append(field, Head(s)))

\* "p0:{v0},p1:{v1},...": n fields, field i named letter and i, values in lo..hi
FieldsIn(bytes, letter, n, lo, hi) ==
    LET fields == Split(bytes, ",", <<>>)
    IN  /\ Len(fields) = n
        /\ \A i \in 1..n :
              LET parts == Split(fields[i], ":", <<>>)
              IN  /\ Len(parts) = 2
                  /\ parts[1] = <<letter>> \o PyStr(i - 1)
                  /\ DecimalIn(parts[2], lo, hi)

\* the bytes are a command of the operation op that holds in-range integers only
InRangeCommand(op, bytes) ==
    CASE op = "_switch_tab" -> bytes \in {<<"m", "d">>, <<"m", "r">>}
      [] op = "_send_cmd" -> bytes \in {<<"i">>, <<"o">>}
      [] op = "_set_canid" ->
            bytes # <<>> /\ Head(bytes) = "c" /\ DecimalIn(Tail(bytes), 1, 4)
      [] op = "_set_robomas_count" ->
            bytes # <<>> /\ Head(bytes) = "n" /\ DecimalIn(Tail(bytes), 1, 8)
      [] op = "_send_value" -> DecimalIn(bytes, -25000, 25000)
      [] op = "_send_robomas_value" -> DecimalIn(bytes, -10000, 10000)
      [] op = "_send_all_pwm" -> FieldsIn(bytes, "p", 4, -25000, 25000)
      [] op = "_send_all_robomas" -> FieldsIn(bytes, "r", 8, -10000, 10000)
      [] op = "send.py" ->
            \/ bytes \in {<<"i">>, <<"o">>}
            \/ /\ bytes # <<>> /\ Last(bytes) = "\n"
               /\ DecimalIn(SubSeq(bytes, 1, Len(bytes) - 1), -25000, 25000)
      [] OTHER -> FALSE

\* C4: every command written to the serial port carries only in-range
\* integers: whenever an operation writes, the bytes it writes are a command of
\* that operation with a CAN id in 1..4, a count in 1..8, PWM values in
\* -25000..25000 and Robomas values in -10000..10000.
WrittenCommandsInRange ==
    [][writes' > writes => InRangeCommand(last'.op, lastWrite')]_vars

\* the "Send All" of the PWM tab has written the lowest PWM value
LowestPwmWritten ==
    /\ last.op = "_send_value" /\ writes = 1
    /\ lastWrite = PyStr(-25000)
    /\ status_var = "Sent PWM value: -25000"

\* C5 as claimed: a handle is recorded only if logging is enabled and the log
\* file exists on disk.
HandleOnlyWhileEnabledAndFileExists ==
    file_handler # "None" => log_enabled /\ fileExists

\* C5 as amended: a handle is recorded only if logging is enabled, and while a
\* handle is recorded the log file is missing only because another process
\* removed it.
HandleOnlyWhileEnabledAndFileNotDeleted ==
    file_handler # "None" =>
        /\ log_enabled
        /\ fileExists \/ removedBy = "another process"

\* delete_log_file has removed the file and the next append has attached a
\* handle that recreated it
HandleAgainAfterDelete ==
    /\ last.op = "_update_status" /\ removedBy = "delete_log_file"
    /\ file_handler # "None" /\ log_enabled /\ fileExists

\* C6 as claimed: enabling logging, at start-up or through the toggle, does not
\* attach the file handle.
EnablingDoesNotAttach ==
    (last.op \in {"start", "toggle_log_file"} /\ log_enabled) => file_handler = "None"

\* C6 as amended: enabling logging, at start-up or through the toggle, attaches
\* the handle at once (creating the log file if it is missing) when the OS lets
\* the file be opened, and attaches none when it does not.
EnablingAttachesAtOnce ==
    (last.op \in {"start", "toggle_log_file"} /\ log_enabled) =>
        IF extLock # "exclusive"
        THEN /\ file_handler \in rootHandlers
             /\ file_handler \in openStreams
             /\ fileExists
        ELSE file_handler \notin rootHandlers

\* the toggle has enabled logging again and the handle is attached
ToggledOnAndAttached ==
    /\ last.op = "toggle_log_file" /\ log_enabled
    /\ file_handler \in rootHandlers
    /\ Len(stderr) >= 2 /\ stderr[Len(stderr) - 1].msg = "Log file disabled"

\* C7: at most one log file handler is attached to the root logger, it is the
\* recorded one, and no step writes more lines to the file than it emits
\* records.
AtMostOneFileHandler ==
    /\ [](/\ Cardinality(rootHandlers \cap FileHandlers) <= 1
          /\ (rootHandlers \cap FileHandlers) \subseteq {file_handler})
    /\ [][Len(fileContent') - Len(fileContent) <= Len(stderr') - Len(stderr)]_vars

\* an append found the recorded handler's file gone and attached a new handler
\* in its place
HandlerReplaced ==
    /\ last.op = "_show_error" /\ removedBy = "another process"
    /\ fileExists /\ file_handler \in rootHandlers
    /\ fileContent = <<Record("ERROR", last.args[1])>>

IsAppend(op) == op \in {"_update_status", "_show_error"}

AppendedRecord(op, message) ==
    Record(IF op = "_show_error" THEN "ERROR" ELSE "INFO", message)

\* C8 as claimed: with logging enabled, an append made while the file is
\* missing recreates the file and the message lands in it; with logging
\* disabled an append neither attaches a handle nor creates the file.
AppendRecreatesFile ==
    [][IsAppend(last'.op) =>
            /\ (log_enabled /\ ~fileExists) =>
                    /\ fileExists'
                    /\ fileContent' = <<AppendedRecord(last'.op, last'.args[1])>>
            /\ ~log_enabled =>
                    /\ file_handler' = "None" /\ rootHandlers' = rootHandlers
                    /\ fileExists' = fileExists]_vars

\* C8 as amended: ensure_log_file_handler attempts the attach exactly when
\* logging is enabled and no handle is recorded or the file is missing.  When
\* the OS lets the file be opened, an append made while the file is missing
\* recreates the file and the message lands in it; when the OS denies it, no
\* handle is attached and the file stays missing.  Otherwise, and always with
\* logging disabled, the recorded handle, the attached handlers and the
\* existence of the file stay as they are.
AppendRecreatesFileIfPermitted ==
    [][IsAppend(last'.op) =>
            IF log_enabled /\ (file_handler = "None" \/ ~fileExists)
            THEN IF extLock # "exclusive"
                 THEN /\ file_handler' \in rootHandlers'
                      /\ file_handler' \in openStreams'
                      /\ fileExists'
                      /\ ~fileExists =>
                            fileContent' = <<AppendedRecord(last'.op, last'.args[1])>>
                 ELSE /\ file_handler' \notin rootHandlers'
                      /\ fileExists' = fileExists
                      /\ fileContent' = fileContent
            ELSE /\ file_handler' = file_handler
                 /\ rootHandlers' = rootHandlers
                 /\ fileExists' = fileExists]_vars

\* another process removed the file and a status append recreated it
RecreatedAfterExternalRemoval ==
    /\ last.op = "_update_status" /\ removedBy = "another process"
    /\ log_enabled /\ fileExists
    /\ fileContent = <<Record("INFO", last.args[1])>>

\* C9: an appended status or error message always goes to the stream sink; it
\* changes the log file only if logging is enabled and a handle is attached,
\* and never while logging is disabled.
AppendReachesFileOnlyWhenEnabled ==
    [][IsAppend(last'.op) =>
            /\ stderr' = Append(stderr, AppendedRecord(last'.op, last'.args[1]))
            /\ (fileContent' # fileContent \/ fileExists' # fileExists) =>
                    /\ log_enabled
                    /\ file_handler' \in rootHandlers'
            /\ ~log_enabled =>
                    /\ fileContent' = fileContent
                    /\ fileExists' = fileExists]_vars

\* a message was appended while logging was disabled and the file held lines
AppendedWhileDisabled ==
    /\ last.op = "_update_status" /\ ~log_enabled
    /\ fileExists /\ fileContent # <<>>
    /\ Last(stderr) = Record("INFO", last.args[1])

\* C10: a toggle never deletes or truncates lines of the log file, and the
\* messages written after it go after the existing content: over a toggle and
\* over an append an existing file stays and its content stays a prefix of the
\* new content; enabling adds its own message at the end.
ToggleKeepsContent ==
    [][(last'.op = "toggle_log_file" \/ IsAppend(last'.op)) =>
            /\ fileExists => (fileExists' /\ IsPrefix(fileContent, fileContent'))
            /\ (last'.op = "toggle_log_file" /\ log_enabled' /\ extLock # "exclusive") =>
                    fileContent' = Append(fileContent, Record("INFO", "Log file enabled"))
      ]_vars

\* logging was switched off and on again over a file that held an earlier
\* run's line, and the line is still the first
ToggledOverOldContent ==
    /\ last.op = "toggle_log_file" /\ log_enabled
    /\ Len(fileContent) >= 2 /\ fileContent[1] = OldLine
    /\ Last(fileContent) = Record("INFO", "Log file enabled")
    /\ \E i \in 1..Len(stderr) : stderr[i].msg = "Log file disabled"

\* the steps of an operation, in order, contain a before b wherever b occurs
Before(steps, a, b) ==
    \A j \in 1..Len(steps) : steps[j] = b => \E i \in 1..(j - 1) : steps[i] = a

\* C11: delete_log_file removes the file only after it has detached the handle
\* (when one was recorded), shut logging down and probed the file, in this
\* order, so that at the removal no handler is recorded or attached and this
\* process holds no stream on the file; when the probe is denied because
\* another process holds the file, it returns False and the file stays with its
\* content unchanged.
DeleteProbesBeforeRemoving ==
    [][last'.op = "delete_log_file" =>
            /\ (fileExists /\ ~fileExists') =>
                    /\ last'.steps = (IF file_handler # "None" THEN <<"detach">> ELSE <<>>)
                                      \o <<"shutdown", "probe", "remove">>
                    /\ last'.ret = "True"
                    /\ file_handler' = "None"
                    /\ rootHandlers' \cap FileHandlers = {}
                    /\ openStreams' = {} /\ orphanStreams' = {}
                    /\ extLock \notin {"exclusive", "unreadable"}
            /\ (fileExists /\ extLock \in {"exclusive", "unreadable"}) =>
                    /\ last'.ret = "False"
                    /\ Before(last'.steps, "shutdown", "probe")
                    /\ \A i \in 1..Len(last'.steps) : last'.steps[i] # "remove"
                    /\ fileExists' /\ fileContent' = fileContent
      ]_vars

\* delete_log_file found the file held by another process at the probe, gave
\* up and attached a handler again; the earlier lines are still in the file
DeleteRefusedAtProbe ==
    /\ last.op = "delete_log_file" /\ last.ret = "False"
    /\ extLock = "unreadable"
    /\ last.steps = <<"detach", "shutdown", "probe", "attach">>
    /\ fileExists /\ fileContent # <<>>

\* delete_log_file failed after it had detached the handler
DeleteFailed == last'.op = "delete_log_file" /\ fileExists /\ last'.ret = "False"

\* C12 as claimed: on every failure of delete_log_file after the detach, the
\* handler is attached again before it returns if logging is enabled, and the
\* enabled flag is unchanged.
DeleteFailureReattaches ==
    [][DeleteFailed =>
            /\ log_enabled' = log_enabled
            /\ log_enabled => /\ file_handler' \in rootHandlers'
                              /\ file_handler' \in openStreams']_vars

\* C12 as amended: on every failure of delete_log_file after the detach the
\* enabled flag is unchanged and the file stays with its content; with logging
\* enabled the last step is an attempt to attach the handler again, which
\* attaches it when the OS lets the file be opened for appending and otherwise
\* leaves no handler recorded, so that the next append tries again; with
\* logging disabled no handler is recorded.
DeleteFailureTriesToReattach ==
    [][DeleteFailed =>
            /\ log_enabled' = log_enabled
            /\ fileExists' /\ fileContent' = fileContent
            /\ IF log_enabled
               THEN IF extLock # "exclusive"
                    THEN /\ file_handler' \in rootHandlers'
                         /\ file_handler' \in openStreams'
                         /\ Last(last'.steps) = "attach"
                    ELSE /\ file_handler' = "None"
                         /\ rootHandlers' \cap FileHandlers = {}
                         /\ stdout' = "Failed to create log file: {e}"
               ELSE file_handler' = "None"]_vars

\* os.remove was denied because another process holds the file open; the
\* handler is attached again and logging is still enabled
ReattachedAfterDeniedRemoval ==
    /\ last.op = "delete_log_file" /\ last.ret = "False"
    /\ extLock = "shared" /\ log_enabled
    /\ last.steps = <<"detach", "shutdown", "probe", "attach">>
    /\ file_handler \in rootHandlers

\* delete_log_file removed the file and nothing has recreated it since
GoneSinceDelete == removedBy = "delete_log_file" /\ ~fileExists

\* what a successful delete_log_file leaves, and what the size query answers
DeleteLeavesNothing ==
    /\ [](get_log_file_size(World) = "N/A" <=> ~fileExists)
    /\ [][(last'.op = "delete_log_file" /\ last'.ret = "True") =>
                /\ GoneSinceDelete'
                /\ file_handler' = "None"
                /\ rootHandlers' \cap FileHandlers = {}
                /\ get_log_file_size(World)' = "N/A"]_vars

\* C13 as claimed: after delete_log_file succeeds the file is gone and no
\* handler is attached, get_log_file_size returns "N/A" until something
\* recreates the file, and the next append with logging enabled recreates the
\* file and writes its message into it.
AppendAfterDeleteRecreates ==
    /\ DeleteLeavesNothing
    /\ [][(IsAppend(last'.op) /\ GoneSinceDelete /\ log_enabled) =>
                /\ fileExists'
                /\ fileContent' = <<AppendedRecord(last'.op, last'.args[1])>>]_vars

\* C13 as amended: the same, for an append made while the OS lets the file be
\* opened; when it does not, the append leaves the file missing and the size
\* query keeps returning "N/A".
AppendAfterDeleteRecreatesIfPermitted ==
    /\ DeleteLeavesNothing
    /\ [][(IsAppend(last'.op) /\ GoneSinceDelete /\ log_enabled) =>
                IF extLock # "exclusive"
                THEN /\ fileExists'
                     /\ fileContent' = <<AppendedRecord(last'.op, last'.args[1])>>
                     /\ get_log_file_size(World)' =
                            ToString(LineBytes(AppendedRecord(last'.op, last'.args[1])))
                                \o " B"
                ELSE /\ ~fileExists'
                     /\ get_log_file_size(World)' = "N/A"]_vars

\* an error message appended after a successful delete_log_file has recreated
\* the file, which now holds that one line of 58 bytes
ErrorLineAloneAfterDelete ==
    /\ last.op = "_show_error" /\ removedBy = "delete_log_file"
    /\ log_enabled /\ fileExists
    /\ fileContent = <<Record("ERROR", "Failed to send command.")>>
    /\ get_log_file_size(World) = "58 B"

\* the line clear_log_file logs when it has cleared the file
ClearedLine == Record("INFO", "Log file cleared")

\* C14 as claimed: clear_log_file called while the file does not exist creates
\* an empty file, of zero length when it returns, leaves the enabled flag as it
\* was and, with logging enabled, a handler attached.
ClearCreatesEmptyFile ==
    [][(last'.op = "clear_log_file" /\ ~fileExists) =>
            /\ fileExists' /\ fileContent' = <<>>
            /\ log_enabled' = log_enabled
            /\ log_enabled => file_handler' \in rootHandlers']_vars

\* C14 as amended: clear_log_file called while the file does not exist leaves
\* the enabled flag as it was.  When the OS lets the file be created it returns
\* True and the file exists: with logging disabled it is empty and no handler
\* is recorded; with logging enabled a handler is attached and the file holds
\* exactly the line "Log file cleared" that clear_log_file logs after the
\* truncation.  When the OS denies it, it returns False and the file stays
\* missing.
ClearCreatesFileWithOwnLine ==
    [][(last'.op = "clear_log_file" /\ ~fileExists) =>
            /\ log_enabled' = log_enabled
            /\ IF extLock # "exclusive"
               THEN /\ last'.ret = "True" /\ fileExists'
                    /\ IF log_enabled
                       THEN /\ fileContent' = <<ClearedLine>>
                            /\ file_handler' \in rootHandlers'
                            /\ file_handler' \in openStreams'
                       ELSE /\ fileContent' = <<>>
                            /\ file_handler' = "None"
               ELSE /\ last'.ret = "False"
                    /\ ~fileExists'
                    /\ rootHandlers' \cap FileHandlers = {}]_vars

\* clear_log_file ran with logging enabled after another process had removed
\* the file: the file is back, a handler is attached, and the file holds the
\* line of the clear
ClearedMissingFileWhileEnabled ==
    /\ last.op = "clear_log_file" /\ last.ret = "True"
    /\ removedBy = "another process" /\ log_enabled
    /\ last.steps = <<"attach", "detach", "truncate", "attach">>
    /\ fileContent = <<ClearedLine>> /\ file_handler \in rootHandlers

\* C15: a successful clear_log_file detaches the handler before it truncates,
\* truncates the file so that none of the lines written before the clear
\* remain (the file then holds at most the line of the clear itself), and
\* afterwards has a handler attached exactly when logging is enabled: with
\* logging enabled its last three steps are detach, truncate, attach, with
\* logging disabled it attaches nothing and no handler is recorded.
ClearDetachesTruncatesReattaches ==
    [][(last'.op = "clear_log_file" /\ last'.ret = "True") =>
            LET st == last'.steps
                n == Len(st)
            IN  /\ fileExists'
                /\ log_enabled' = log_enabled
                /\ IF log_enabled
                   THEN /\ n >= 3 /\ SubSeq(st, n - 2, n) = <<"detach", "truncate", "attach">>
                        /\ fileContent' = <<ClearedLine>>
                        /\ file_handler' \in rootHandlers'
                        /\ file_handler' \in openStreams'
                   ELSE /\ n >= 1 /\ st[n] = "truncate"
                        /\ \A i \in 1..n : st[i] # "attach"
                        /\ fileContent' = <<>>
                        /\ file_handler' = "None"
                        /\ rootHandlers' \cap FileHandlers = {}]_vars

\* clear_log_file succeeded with logging enabled after two records of this
\* run: of all that was in the file only the line of the clear is left
ClearedThreeLines ==
    /\ last.op = "clear_log_file" /\ last.ret = "True" /\ log_enabled
    /\ last.steps = <<"detach", "truncate", "attach">>
    /\ fileContent = <<ClearedLine>>
    /\ Len(stderr) >= StartupRecords(program) + 3

\* C16 as claimed: when clear_log_file fails, the handler is attached again
\* before it returns if logging is enabled, so a failed clear never leaves
\* logging enabled with no handler; the enabled flag is unchanged.
FailedClearReattaches ==
    [][(last'.op = "clear_log_file" /\ last'.ret = "False") =>
            /\ log_enabled' = log_enabled
            /\ log_enabled => /\ file_handler' \in rootHandlers'
                              /\ file_handler' \in openStreams']_vars

\* C16 as amended: when clear_log_file fails, the enabled flag is unchanged and
\* the file is as it was.  With logging enabled and the truncation denied, the
\* last thing it does is try to attach the handler again: a handler is
\* attached when it returns if the OS lets the file be opened for appending
\* (the file is append-only), and none is attached if the OS denies that too
\* or if the failure was that the missing file could not be created.
FailedClearTriesToReattach ==
    [][(last'.op = "clear_log_file" /\ last'.ret = "False") =>
            /\ log_enabled' = log_enabled
            /\ fileExists' = fileExists /\ fileContent' = fileContent
            /\ extLock \in {"exclusive", "appendonly"}
            /\ IF log_enabled /\ extLock = "appendonly"
               THEN /\ Len(last'.steps) >= 2
                    /\ SubSeq(last'.steps, Len(last'.steps) - 1, Len(last'.steps))
                            = <<"detach", "attach">>
                    /\ file_handler' \in rootHandlers'
                    /\ file_handler' \in openStreams'
               ELSE rootHandlers' \cap FileHandlers = {}]_vars

\* clear_log_file could not truncate an append-only file, returned False and
\* attached the handler again; the lines are still in the file
FailedClearReattached ==
    /\ last.op = "clear_log_file" /\ last.ret = "False"
    /\ extLock = "appendonly" /\ log_enabled
    /\ last.steps = <<"detach", "attach">>
    /\ file_handler \in rootHandlers /\ fileContent # <<>>

\* C17: no operation ends in an exception that nothing catches: every failure
\* of a send and of a log operation ends as a result the caller receives, in
\* the GUI programs and in send.py.
NoFailureEscapes == last.ret # "exception"

\* how often the step name occurs among the steps
RECURSIVE Count(_, _)
Count(steps, name) ==
    IF steps = <<>> THEN 0
    ELSE (IF Head(steps) = name THEN 1 ELSE 0) + Count(Tail(steps), name)

\* the handlers that send: each passes one command to _execute_serial_operation
\* when its input is valid (_switch_tab only with a port selected)
SendOps == {"_switch_tab", "_set_canid", "_set_robomas_count", "_send_all_pwm",
            "_send_all_robomas", "_send_value", "_send_robomas_value", "_send_cmd"}

\* C18: a logical send with a port selected makes exactly one open attempt and
\* at most one write attempt.  When the open fails it writes nothing and
\* reports the failure; when the write fails it reports the failure without a
\* second open or write; when both succeed exactly one command is written.
OneOpenOneWriteNoRetry ==
    [][(program \in GuiPrograms /\ last'.op \in SendOps /\ port # ""
            /\ ~FailsValidation(last'.op, last'.args)) =>
            /\ Count(last'.steps, "open") = 1
            /\ Count(last'.steps, "write") <= 1
            /\ opens' - opens \in {0, 1}
            /\ writes' - writes \in {0, 1}
            /\ opens' = opens =>
                    /\ Count(last'.steps, "write") = 0 /\ writes' = writes
                    /\ Len(stderr') >= Len(stderr) + 2
                    /\ stderr'[Len(stderr) + 1] =
                            Record("ERROR", "Failed to open serial connection: {e}")
                    /\ stderr'[Len(stderr) + 2] =
                            Record("ERROR", "Failed to open serial connection.")
            /\ (opens' = opens + 1 /\ writes' = writes) =>
                    /\ Count(last'.steps, "write") = 1
                    /\ Len(stderr') >= Len(stderr) + 2
                    /\ stderr'[Len(stderr) + 1] =
                            Record("ERROR", "Failed to send command: {e}")
                    /\ stderr'[Len(stderr) + 2] =
                            Record("ERROR", "Failed to send command.")
            /\ writes' = writes + 1 =>
                    (opens' = opens + 1 /\ Count(last'.steps, "write") = 1)]_vars

\* a send whose write failed: one open, one write attempt, the failure reported
WriteFailedOnce ==
    /\ last.op = "_send_cmd" /\ last.ret = "None"
    /\ Count(last.steps, "open") = 1 /\ Count(last.steps, "write") = 1
    /\ opens = 1 /\ closes = 1 /\ writes = 0
    /\ status_var = "Error: Failed to send command."

\* C19: send.py closes the port it opened on every path of a run: when a run
\* is over, every port the script opened has been closed by ser.close().
ScriptClosesWhatItOpened ==
    (program = "send.py" /\ last.op = "send.py") => (closes = opens /\ ser # "open")

\* C20: validate_robomas_value takes an empty or whitespace-only text as the
\* value 0 and succeeds, so that the single-value Robomas send with such a text
\* reports no validation error.
EmptyRobomasValueIsZero ==
    (last.op = "_send_robomas_value" /\ Strip(last.args[1]) = <<>>) =>
        /\ validate_robomas_value(last.args[1]) =
                [is_valid |-> TRUE, value |-> <<0>>, error_msg |-> ""]
        /\ status_var # "Error: Invalid value (must be integer)"

\* the operation sends a single scalar value
SendsSingleValue(op, args) ==
    \/ op \in {"_send_value", "_send_robomas_value"}
    \/ op = "send.py" /\ args[1] \notin {<<"i">>, <<"o">>}

\* C21: a command written to the port ends with a newline exactly when it is
\* the single scalar value, sent by send.py or by a single-value button of the
\* GUI; every other command is written without a trailing newline.
SingleValueEndsWithNewline ==
    [][writes' = writes + 1 =>
            (SendsSingleValue(last'.op, last'.args) <=> Last(lastWrite') = "\n")]_vars

\* C22: validate_pwm_value accepts exactly the integers of [-25000, 25000]:
\* the decimal text of such an integer, bare or with blanks around, validates
\* to that integer; the decimal text of an integer outside fails as out of
\* range; a text that is no integer fails.
PwmValueAcceptsExactlyTheRange ==
    last.op = "validate_pwm_value" =>
        /\ \A v \in PwmSample :
               last.args[1] \in Typed(v) =>
                   IF -25000 <= v /\ v <= 25000
                   THEN last.ret = [is_valid |-> TRUE, value |-> <<v>>, error_msg |-> ""]
                   ELSE last.ret = [is_valid |-> FALSE, value |-> <<>>,
                                    error_msg |-> "Value out of range (-25000~25000)"]
        /\ last.args[1] \in NotIntegers =>
               last.ret = [is_valid |-> FALSE, value |-> <<>>,
                           error_msg |-> "Invalid value (must be integer)"]

\* the upper limit, typed with blanks around, was accepted as 25000
UpperLimitAccepted ==
    /\ last.op = "validate_pwm_value"
    /\ last.args = <<Padded(25000)>>
    /\ last.ret.is_valid /\ last.ret.value = <<25000>>

\* C23: validate_pwm_values succeeds, with the values in input order, only
\* when every element is valid; otherwise its error names the lowest failing
\* index and carries the message of that element alone, and no value is
\* returned.
PwmValuesStopAtFirstFailure ==
    last.op = "validate_pwm_values" =>
        LET values == last.args
            bad == {i \in 1..Len(values) : ~validate_pwm_value(values[i]).is_valid}
        IN  IF bad = {}
            THEN last.ret = [is_valid |-> TRUE,
                             value |-> [i \in 1..Len(values) |->
                                           validate_pwm_value(values[i]).value[1]],
                             error_msg |-> ""]
            ELSE LET k == CHOOSE i \in bad : \A j \in bad : i <= j
                 IN  last.ret = [is_valid |-> FALSE, value |-> <<>>,
                                 error_msg |-> "PWM[" \o ToString(k - 1) \o "]: "
                                               \o validate_pwm_value(values[k]).error_msg]

\* the second of four elements is out of range and the third is no integer:
\* the error is the one of the second
SecondOfTwoFailuresUnreported ==
    /\ last.op = "validate_pwm_values"
    /\ last.args = <<PyStr(0), PyStr(25001), NotInteger, PyStr(1)>>
    /\ last.ret.error_msg = "PWM[1]: Value out of range (-25000~25000)"
    /\ last.ret.value = <<>>

\* an entry text of blanks only
IsBlank(text) == \A i \in 1..Len(text) : text[i] = " "

\* the integer a Robomas entry text stands for, 0 for a blank one
RobomasTextValue(text) == IF IsBlank(text) THEN 0 ELSE PyInt(text).v

RobomasTextValid(text) ==
    \/ IsBlank(text)
    \/ /\ PyInt(text).ok
       /\ -10000 <= RobomasTextValue(text) /\ RobomasTextValue(text) <= 10000

\* C24: validate_robomas_values returns the 8 values in input order, 0 for
\* each empty or blank element, when every other element is an integer of
\* [-10000, 10000]; otherwise its error names the index of the first failing
\* element and no value is returned.
RobomasValuesEmptyIsZero ==
    last.op = "validate_robomas_values" =>
        LET values == last.args
            bad == {i \in 1..Len(values) : ~RobomasTextValid(values[i])}
        IN  IF bad = {}
            THEN /\ Len(last.ret.value) = 8
                 /\ last.ret = [is_valid |-> TRUE,
                                value |-> [i \in 1..8 |-> RobomasTextValue(values[i])],
                                error_msg |-> ""]
            ELSE LET k == CHOOSE i \in bad : \A j \in bad : i <= j
                 IN  /\ ~last.ret.is_valid
                     /\ last.ret.value = <<>>
                     /\ IsPrefix("Robomas[" \o ToString(k - 1) \o "]: ",
                                 last.ret.error_msg)

\* eight fields with an empty one, a blank one and the lower limit gave eight
\* values
EmptyAndBlankBecameZero ==
    /\ last.op = "validate_robomas_values"
    /\ last.args[2] = <<>> /\ last.args[3] = Blanks
    /\ last.ret.is_valid
    /\ last.ret.value = <<-300, 0, 0, 0, 100, 200, 300, 400>>

\* the bytes as one text
RECURSIVE AsText(_)
AsText(bytes) == IF bytes = <<>> THEN "" ELSE Head(bytes) \o AsText(Tail(bytes))

\* "{letter}0:{v0},{letter}1:{v1},..." written out for the values from index i
RECURSIVE Fields(_, _, _)
Fields(letter, v, i) ==
    IF i > Len(v) THEN ""
    ELSE (IF i = 1 THEN "" ELSE ",") \o letter \o ToString(i - 1) \o ":"
         \o ToString(v[i]) \o Fields(letter, v, i + 1)

\* C25: what a set-all handler writes is a function of the validated values:
\* the four PWM values as exactly "p0:{v0},p1:{v1},p2:{v2},p3:{v3}" and the
\* eight Robomas values as "r0:{v0},...,r7:{v7}", value i in field i, in plain
\* decimal.
SetAllEncodingKeepsOrder ==
    [][writes' = writes + 1 =>
           /\ last'.op = "_send_all_pwm" =>
                  LET v == [i \in 1..4 |-> PyInt(last'.args[i]).v]
                  IN  AsText(lastWrite')
                          = "p0:" \o ToString(v[1]) \o ",p1:" \o ToString(v[2])
                            \o ",p2:" \o ToString(v[3]) \o ",p3:" \o ToString(v[4])
           /\ last'.op = "_send_all_robomas" =>
                  AsText(lastWrite')
                      = Fields("r", [i \in 1..8 |-> RobomasTextValue(last'.args[i])], 1)]_vars

\* the four values 2, -200, 0 and 25000 were written in that order
FourValuesWritten ==
    /\ last.op = "_send_all_pwm"
    /\ last.args = <<PyStr(2), PyStr(-200), PyStr(0), Padded(25000)>>
    /\ writes = 1
    /\ AsText(lastWrite) = "p0:2,p1:-200,p2:0,p3:25000"

\* the tenths nearest to size / unit
NearestTenths(size, unit) ==
    {t \in {(size * 10) \div unit, (size * 10) \div unit + 1} :
        2 * (IF t * unit >= size * 10 THEN t * unit - size * 10 ELSE size * 10 - t * unit)
            <= unit}

\* the texts "{x}.{d} {name}" for size in the unit
InUnit(size, unit, name) ==
    {ToString(t \div 10) \o "." \o ToString(t % 10) \o " " \o name :
        t \in NearestTenths(size, unit)}

\* C26: get_log_file_size shows a size below 1024 bytes as "{n} B", a size
\* from 1024 to 1048575 bytes in KB with one decimal, a size from 1048576
\* bytes in MB with one decimal, and a missing file as "N/A"; 1023 gives
\* "1023 B", 1024 gives "1.0 KB" and 1048576 gives "1.0 MB".
SizeUnitByBinaryThresholds ==
    last.op = "get_log_file_size" =>
        LET size == last.args[1]
        IN  /\ ~fileExists => last.ret = "N/A"
            /\ fileExists /\ size < 1024 => last.ret = ToString(size) \o " B"
            /\ fileExists /\ 1024 <= size /\ size <= 1048575 =>
                   last.ret \in InUnit(size, 1024, "KB")
            /\ fileExists /\ 1048576 <= size => last.ret \in InUnit(size, 1048576, "MB")
            /\ fileExists /\ size = 1023 => last.ret = "1023 B"
            /\ fileExists /\ size = 1024 => last.ret = "1.0 KB"
            /\ fileExists /\ size = 1048576 => last.ret = "1.0 MB"

\* a file of 1048575 bytes was shown in KB
LargestKilobytesShown ==
    /\ last.op = "get_log_file_size"
    /\ fileExists /\ last.args = <<1048575>>
    /\ last.ret = "1024.0 KB"

\* C27: whenever the log manager records a handler, that handler is attached
\* to the root logger and its stream is open; so after an attach that failed
\* no handler is recorded.
RecordedHandlerIsOpenAndAttached ==
    file_handler # "None" =>
        /\ file_handler \in rootHandlers
        /\ file_handler \in openStreams \cup orphanStreams

\* the mode command of a tab
ModeCommand(tab) == IF tab = "donmota" THEN <<"m", "d">> ELSE <<"m", "r">>

\* C28: in GUI-Serial-v2 a tab switch always shows the requested tab. With a
\* port selected it makes one attempt to send "md" or "mr", writes nothing
\* else, and reports 'Switched to ... mode' whether or not the command was
\* delivered; with no port selected it attempts nothing. At start-up the
\* donmota tab is shown and nothing has been sent.
TabSwitchAlwaysSwitches ==
    /\ [](last.op = "start" /\ program = "GUI-Serial-v2.py" =>
              /\ current_tab = "donmota"
              /\ opens = 0 /\ writes = 0
              /\ Count(last.steps, "open") = 0 /\ Count(last.steps, "write") = 0)
    /\ [][last'.op = "_switch_tab" =>
              LET tab == last'.args[1]
              IN  /\ current_tab' = tab
                  /\ port # "" =>
                         /\ Count(last'.steps, "open") = 1
                         /\ Count(last'.steps, "write") <= 1
                         /\ writes' \in {writes, writes + 1}
                         /\ writes' = writes + 1 => lastWrite' = ModeCommand(tab)
                         /\ writes' = writes => lastWrite' = lastWrite
                         /\ status_var' = "Switched to " \o tab \o " mode"
                  /\ port = "" =>
                         /\ Count(last'.steps, "open") = 0
                         /\ Count(last'.steps, "write") = 0
                         /\ writes' = writes /\ lastWrite' = lastWrite
                         /\ opens' = opens]_vars

\* the robomas tab is shown although its mode command could not be written
TabShownAfterFailedSend ==
    /\ last.op = "_switch_tab" /\ last.args = <<"robomas">>
    /\ port # ""
    /\ Count(last.steps, "write") = 1 /\ writes = 0
    /\ current_tab = "robomas"
    /\ status_var = "Switched to robomas mode"

\* what a toggle does: 'Log file disabled' goes to the stream sink alone, with
\* the handler gone; 'Log file enabled' is the new last line of the log file
\* when canOpen holds before the toggle
ToggleOrder(canOpen) ==
    last'.op = "toggle_log_file" =>
        /\ ~log_enabled' =>
               /\ file_handler' = "None"
               /\ rootHandlers' \cap FileHandlers = {}
               /\ Last(stderr') = Record("INFO", "Log file disabled")
               /\ fileExists' = fileExists /\ fileContent' = fileContent
        /\ (log_enabled' /\ canOpen) =>
               /\ Count(last'.steps, "attach") = 1
               /\ fileExists'
               /\ fileContent' = (IF fileExists THEN fileContent ELSE <<>>)
                                 \o <<Record("INFO", "Log file enabled")>>

ReachesSend(op, args) == op \in SendOps \ {"_switch_tab"} /\ ~FailsValidation(op, args)

\* C30: with no port selected a send makes no open attempt and writes
\* nothing, and the status of a successful send is not set: GUI-Serial.py
\* reports 'Select a serial port.' as a logged error, GUI-Serial-v2.py sets the
\* status 'Warning: No serial port selected' and logs nothing.
NoPortNoAttempt ==
    [][(ReachesSend(last'.op, last'.args) /\ port = "") =>
           /\ Count(last'.steps, "open") = 0 /\ Count(last'.steps, "write") = 0
           /\ opens' = opens /\ writes' = writes /\ lastWrite' = lastWrite
           /\ serial_connection' = serial_connection
           /\ IF program = "GUI-Serial-v2.py"
              THEN /\ status_var' = "Warning: No serial port selected"
                   /\ stderr' = stderr
                   /\ fileExists' = fileExists /\ fileContent' = fileContent
              ELSE /\ status_var' = "Error: Select a serial port."
                   /\ stderr' = Append(stderr, Record("ERROR", "Select a serial port."))
                   /\ log_enabled =>
                          fileContent' = Append(fileContent,
                                                Record("ERROR", "Select a serial port."))]_vars

\* GUI-Serial-v2 was asked to send four valid PWM values with no port selected
WarnedWithoutPort ==
    /\ program = "GUI-Serial-v2.py" /\ port = ""
    /\ last.op = "_send_all_pwm" /\ ~FailsValidation(last.op, last.args)
    /\ status_var = "Warning: No serial port selected"
    /\ opens = 0 /\ writes = 0

====
